---- MODULE Spec2Model ----
(***************************************************************************)
(* Model of the conversational session of conversar_agente.py: the content *)
(* moderation gate (moderar_texto) and the conversation loop               *)
(* (bucle_conversacion) that reads a line, moderates it, posts it to the   *)
(* thread, runs the agent, polls the run, lists the messages and moderates *)
(* and prints the agent's response; of the supervisor of inicio.py         *)
(* (OrquestadorInicio) that starts and stops the MCP server as a child     *)
(* process; and of the four joke tools of chuck_norris_server.py.          *)
(***************************************************************************)
EXTENDS Integers, Sequences, FiniteSets, TLC

(***************************************************************************)
(* Bounds of the model.                                                    *)
(***************************************************************************)
MaxTurnos == 2        \* loop iterations explored (contador_conversacion)
MaxSondeos == 2       \* runs.get calls explored per turn
MaxPartes == 2        \* content parts of one assistant message
MaxCategorias == 2    \* entries of categories_analysis in one response
MaxArranques == 2     \* children the supervisor spawns in one session
MaxErrores == 1       \* stops of the MCP server that raise in one session
MaxChistes == 6       \* entries of "result" in the body of a search
MaxSeveridad == 3     \* largest severity the backend reports

(***************************************************************************)
(* Values.                                                                 *)
(***************************************************************************)
\* Python's None for the objects handled by the loop
None == [tipo |-> "None"]

\* a categories_analysis entry whose severity is None (the field is optional)
SeveridadNone == -1

NombresCategoria == <<"Hate", "SelfHarm", "Sexual", "Violence">>

Severidades == (0..MaxSeveridad) \cup {SeveridadNone}

\* the sequences of length 0..n over S
SeqHasta(S, n) == UNION {[1..k -> S] : k \in 0..n}

\* the response objects of cliente.analyze_text with at most n categories
RespuestasDe(n) ==
    {[tipo |-> "AnalyzeTextResult",
      categories_analysis |->
          [i \in 1..Len(sevs) |-> [category |-> NombresCategoria[i], severity |-> sevs[i]]]] :
        sevs \in SeqHasta(Severidades, n)}

\* results of cliente.analyze_text: a response object, or an exception
RespuestasAnalisis == RespuestasDe(MaxCategorias)

ExcepcionBackend == [tipo |-> "Exception"]

ResultadosBackend == RespuestasAnalisis \cup {ExcepcionBackend}

\* the results of analyze_text drawn inside the conversation loop, which uses
\* only the verdict: the exception and the responses of at most one category
\* (safe, flagged, severity None); SpecModerar covers the longer responses
ResultadosBackendSesion == RespuestasDe(1) \cup {ExcepcionBackend}

\* the ContentSafetyClient built at import time, or None when
\* CONTENT_SAFETY_ENDPOINT is not set or the constructor raised
ClienteConfigurado == [tipo |-> "ContentSafetyClient"]

(***************************************************************************)
(* moderar_texto                                                           *)
(***************************************************************************)
\* the loop with the test severity > 2 in place of severity >= 2
RECURSIVE BucleCategorias_estricto(_, _, _)
BucleCategorias_estricto(cats, i, acc) ==
    IF i > Len(cats) THEN acc
    ELSE IF cats[i].severity = SeveridadNone
         THEN [acc EXCEPT !.excepcion = TRUE]
         ELSE LET sev == cats[i].severity
                  maxima == IF sev > acc.severidad_maxima THEN sev ELSE acc.severidad_maxima
                  marcada == sev > 2
              IN  BucleCategorias_estricto(cats, i + 1,
                     [esta_marcado |-> acc.esta_marcado \/ marcada,
                      categorias_marcadas |->
                          IF marcada THEN Append(acc.categorias_marcadas, <<cats[i].category, sev>>)
                                     ELSE acc.categorias_marcadas,
                      severidad_maxima |-> maxima,
                      excepcion |-> FALSE])

\* the for loop over respuesta.categories_analysis, carrying esta_marcado,
\* categorias_marcadas and severidad_maxima; max(int, None) raises TypeError
RECURSIVE BucleCategorias(_, _, _)
BucleCategorias(cats, i, acc) ==
    IF i > Len(cats) THEN acc
    ELSE IF cats[i].severity = SeveridadNone
         THEN [acc EXCEPT !.excepcion = TRUE]
         ELSE LET sev == cats[i].severity
                  maxima == IF sev > acc.severidad_maxima THEN sev ELSE acc.severidad_maxima
                  marcada == sev >= 2
              IN  BucleCategorias(cats, i + 1,
                     [esta_marcado |-> acc.esta_marcado \/ marcada,
                      categorias_marcadas |->
                          IF marcada THEN Append(acc.categorias_marcadas, <<cats[i].category, sev>>)
                                     ELSE acc.categorias_marcadas,
                      severidad_maxima |-> maxima,
                      excepcion |-> FALSE])

\* moderar_texto with an except branch that returns es_seguro false
moderar_texto_cerrado(texto, cliente, backend) ==
    IF cliente = None
    THEN [es_seguro |-> TRUE, motivo |-> [tipo |-> "deshabilitada"], respuesta |-> None,
          advertencia |-> FALSE, llamo_backend |-> FALSE]
    ELSE IF backend = ExcepcionBackend
    THEN [es_seguro |-> FALSE, motivo |-> [tipo |-> "no_disponible"], respuesta |-> None,
          advertencia |-> TRUE, llamo_backend |-> TRUE]
    ELSE LET fin == BucleCategorias(backend.categories_analysis, 1,
                        [esta_marcado |-> FALSE, categorias_marcadas |-> <<>>,
                         severidad_maxima |-> 0, excepcion |-> FALSE])
         IN  IF fin.excepcion
             THEN [es_seguro |-> FALSE, motivo |-> [tipo |-> "no_disponible"], respuesta |-> None,
                   advertencia |-> TRUE, llamo_backend |-> TRUE]
             ELSE IF fin.esta_marcado
             THEN [es_seguro |-> FALSE,
                   motivo |-> [tipo |-> "marcado", categorias |-> fin.categorias_marcadas],
                   respuesta |-> backend, advertencia |-> FALSE, llamo_backend |-> TRUE]
             ELSE [es_seguro |-> TRUE, motivo |-> [tipo |-> "seguro"],
                   respuesta |-> backend, advertencia |-> FALSE, llamo_backend |-> TRUE]

\* moderar_texto with an except branch that returns the reason of the
\* disabled mode
moderar_texto_motivo_confuso(texto, cliente, backend) ==
    IF cliente = None
    THEN [es_seguro |-> TRUE, motivo |-> [tipo |-> "deshabilitada"], respuesta |-> None,
          advertencia |-> FALSE, llamo_backend |-> FALSE]
    ELSE IF backend = ExcepcionBackend
    THEN [es_seguro |-> TRUE, motivo |-> [tipo |-> "deshabilitada"], respuesta |-> None,
          advertencia |-> TRUE, llamo_backend |-> TRUE]
    ELSE LET fin == BucleCategorias(backend.categories_analysis, 1,
                        [esta_marcado |-> FALSE, categorias_marcadas |-> <<>>,
                         severidad_maxima |-> 0, excepcion |-> FALSE])
         IN  IF fin.excepcion
             THEN [es_seguro |-> TRUE, motivo |-> [tipo |-> "deshabilitada"], respuesta |-> None,
                   advertencia |-> TRUE, llamo_backend |-> TRUE]
             ELSE IF fin.esta_marcado
             THEN [es_seguro |-> FALSE,
                   motivo |-> [tipo |-> "marcado", categorias |-> fin.categorias_marcadas],
                   respuesta |-> backend, advertencia |-> FALSE, llamo_backend |-> TRUE]
             ELSE [es_seguro |-> TRUE, motivo |-> [tipo |-> "seguro"],
                   respuesta |-> backend, advertencia |-> FALSE, llamo_backend |-> TRUE]

\* moderar_texto without the test of line 91: the backend is asked whatever
\* the client is
moderar_texto_sin_guardia(texto, cliente, backend) ==
    IF backend = ExcepcionBackend
    THEN [es_seguro |-> TRUE, motivo |-> [tipo |-> "no_disponible"], respuesta |-> None,
          advertencia |-> TRUE, llamo_backend |-> TRUE]
    ELSE LET fin == BucleCategorias(backend.categories_analysis, 1,
                        [esta_marcado |-> FALSE, categorias_marcadas |-> <<>>,
                         severidad_maxima |-> 0, excepcion |-> FALSE])
         IN  IF fin.excepcion
             THEN [es_seguro |-> TRUE, motivo |-> [tipo |-> "no_disponible"], respuesta |-> None,
                   advertencia |-> TRUE, llamo_backend |-> TRUE]
             ELSE IF fin.esta_marcado
             THEN [es_seguro |-> FALSE,
                   motivo |-> [tipo |-> "marcado", categorias |-> fin.categorias_marcadas],
                   respuesta |-> backend, advertencia |-> FALSE, llamo_backend |-> TRUE]
             ELSE [es_seguro |-> TRUE, motivo |-> [tipo |-> "seguro"],
                   respuesta |-> backend, advertencia |-> FALSE, llamo_backend |-> TRUE]

\* moderar_texto(texto, cliente) with the outcome of cliente.analyze_text given
\* as backend; advertencia is the warning line printed by the except branch
moderar_texto(texto, cliente, backend) ==
    IF cliente = None
    THEN [es_seguro |-> TRUE, motivo |-> [tipo |-> "deshabilitada"], respuesta |-> None,
          advertencia |-> FALSE, llamo_backend |-> FALSE]
    ELSE IF backend = ExcepcionBackend
    THEN [es_seguro |-> TRUE, motivo |-> [tipo |-> "no_disponible"], respuesta |-> None,
          advertencia |-> TRUE, llamo_backend |-> TRUE]
    ELSE LET fin == BucleCategorias(backend.categories_analysis, 1,
                        [esta_marcado |-> FALSE, categorias_marcadas |-> <<>>,
                         severidad_maxima |-> 0, excepcion |-> FALSE])
         IN  IF fin.excepcion
             THEN [es_seguro |-> TRUE, motivo |-> [tipo |-> "no_disponible"], respuesta |-> None,
                   advertencia |-> TRUE, llamo_backend |-> TRUE]
             ELSE IF fin.esta_marcado
             THEN [es_seguro |-> FALSE,
                   motivo |-> [tipo |-> "marcado", categorias |-> fin.categorias_marcadas],
                   respuesta |-> backend, advertencia |-> FALSE, llamo_backend |-> TRUE]
             ELSE [es_seguro |-> TRUE, motivo |-> [tipo |-> "seguro"],
                   respuesta |-> backend, advertencia |-> FALSE, llamo_backend |-> TRUE]

\* the lines imprimir_resultados_seguridad_contenido prints: the notice that
\* no analysis is available, or the per-category severity breakdown
imprimir_resultados_seguridad_contenido(respuesta) ==
    IF respuesta = None
    THEN <<[tipo |-> "analisis_no_disponible"]>>
    ELSE <<[tipo |-> "analisis_categorias"]>>

(***************************************************************************)
(* Reading a line: obtener_entrada_usuario_segura                          *)
(***************************************************************************)
\* str.strip(): drop the leading and the trailing whitespace
RECURSIVE lstrip(_)
lstrip(s) == IF s # <<>> /\ Head(s) = " " THEN lstrip(Tail(s)) ELSE s

RECURSIVE rstrip(_)
rstrip(s) == IF s # <<>> /\ s[Len(s)] = " " THEN rstrip(SubSeq(s, 1, Len(s) - 1)) ELSE s

strip(s) == rstrip(lstrip(s))

\* str.lower() on the alphabet of the lines below
MinusculaDe(c) ==
    CASE c = "B" -> "b"
      [] c = "Y" -> "y"
      [] c = "E" -> "e"
      [] OTHER -> c

lower(s) == [i \in 1..Len(s) |-> MinusculaDe(s[i])]

\* ['quit', 'exit', 'bye', 'salir', 'adiós']
PalabrasSalida ==
    { <<"q","u","i","t">>, <<"e","x","i","t">>, <<"b","y","e">>,
      <<"s","a","l","i","r">>, <<"a","d","i","ó","s">> }

\* the lines input() returns in the model
LineasEntrada ==
    { <<>>, <<" ", " ">>, <<" ", "b", "y", "e", "!">>, <<"B", "Y", "E", " ">>,
      <<"s","a","l","i","r">> }

\* the outcomes of input(): a line, or one of the exceptions the function handles
Lecturas ==
    {[tipo |-> "linea", valor |-> l] : l \in LineasEntrada}
      \cup {[tipo |-> "UnicodeDecodeError"], [tipo |-> "EOFError"],
            [tipo |-> "KeyboardInterrupt"], [tipo |-> "Exception"]}

\* the last except branch returning "salir" like the two before it
obtener_entrada_usuario_segura_error_sale(lectura) ==
    CASE lectura.tipo = "linea" ->
            [valor |-> strip(lectura.valor), impreso |-> <<>>]
      [] lectura.tipo = "UnicodeDecodeError" ->
            [valor |-> <<>>, impreso |-> <<[tipo |-> "error_codificacion"]>>]
      [] lectura.tipo = "EOFError" ->
            [valor |-> <<"s","a","l","i","r">>, impreso |-> <<[tipo |-> "sesion_terminada"]>>]
      [] lectura.tipo = "KeyboardInterrupt" ->
            [valor |-> <<"s","a","l","i","r">>, impreso |-> <<[tipo |-> "sesion_interrumpida"]>>]
      [] OTHER ->
            [valor |-> <<"s","a","l","i","r">>, impreso |-> <<[tipo |-> "error_lectura"]>>]

\* the value obtener_entrada_usuario_segura returns and the lines it prints
obtener_entrada_usuario_segura(lectura) ==
    CASE lectura.tipo = "linea" ->
            [valor |-> strip(lectura.valor), impreso |-> <<>>]
      [] lectura.tipo = "UnicodeDecodeError" ->
            [valor |-> <<>>, impreso |-> <<[tipo |-> "error_codificacion"]>>]
      [] lectura.tipo = "EOFError" ->
            [valor |-> <<"s","a","l","i","r">>, impreso |-> <<[tipo |-> "sesion_terminada"]>>]
      [] lectura.tipo = "KeyboardInterrupt" ->
            [valor |-> <<"s","a","l","i","r">>, impreso |-> <<[tipo |-> "sesion_interrumpida"]>>]
      [] OTHER ->
            [valor |-> <<>>, impreso |-> <<[tipo |-> "error_lectura"]>>]

(***************************************************************************)
(* The agent service: thread, messages and runs                            *)
(***************************************************************************)
EstadosNoTerminales == {"queued", "in_progress", "requires_action"}

EstadosTerminales == {"completed", "failed", "cancelled", "expired"}

EstadosEjecucion == EstadosNoTerminales \cup EstadosTerminales

\* kinds of content part of a message; only "text" is a MessageTextContent
TiposParte == {"text", "image_file"}

\* the shapes of the content of an assistant message (empty: no content)
FormasContenido == SeqHasta(TiposParte, MaxPartes)

\* the assistant message the run of turn n writes with content shape forma;
\* the text of part i is "r", n, i: a text no other part carries
TextoParte(n, i) == <<"r", ToString(n), ToString(i)>>

MensajeAsistente(n, forma) ==
    [id |-> n, role |-> "assistant",
     content |-> [i \in 1..Len(forma) |->
                     IF forma[i] = "text"
                     THEN [tipo |-> "text", value |-> TextoParte(n, i)]
                     ELSE [tipo |-> "image_file"]]]

\* messages.create(thread_id, role="user", content=...)
MensajeUsuario(n, entrada) ==
    [id |-> n, role |-> "user", content |-> <<[tipo |-> "text", value |-> entrada]>>]

\* what a run leaves on the thread when it ends: nothing, or one assistant message
EscriturasEjecucion == {None} \cup {[tipo |-> "mensaje", forma |-> f] : f \in FormasContenido}

HiloTras(h, n, status, escritura) ==
    IF status \in EstadosTerminales /\ escritura # None
    THEN Append(h, MensajeAsistente(n, escritura.forma))
    ELSE h

\* messages.list(order=DESCENDING)
Descendente(h) == [i \in 1..Len(h) |-> h[Len(h) + 1 - i]]

\* the inner loop leaving after its first MessageTextContent
RECURSIVE TextosDe_primero(_)
TextosDe_primero(content) ==
    IF content = <<>> THEN <<>>
    ELSE IF Head(content).tipo = "text"
         THEN <<Head(content).value>>
         ELSE TextosDe_primero(Tail(content))

\* the text values of the MessageTextContent parts of a content, in order
RECURSIVE TextosDe(_)
TextosDe(content) ==
    IF content = <<>> THEN <<>>
    ELSE IF Head(content).tipo = "text"
         THEN <<Head(content).value>> \o TextosDe(Tail(content))
         ELSE TextosDe(Tail(content))

\* the for loop over mensajes: the texts the inner loop moderates, which are
\* those of the first message with role "assistant"; the break leaves the loop
\* after that message whether or not it had content
RECURSIVE TextosRespuesta(_)
TextosRespuesta(mensajes) ==
    IF mensajes = <<>> THEN <<>>
    ELSE IF Head(mensajes).role = "assistant"
         THEN TextosDe(Head(mensajes).content)
         ELSE TextosRespuesta(Tail(mensajes))

(***************************************************************************)
(* State                                                                   *)
(***************************************************************************)
VARIABLES
    pc,                           \* position of the script in the loop
    cliente_seguridad_contenido,  \* the moderation client, or None
    contador_conversacion,        \* the turn counter
    entrada_usuario,              \* the line read in this iteration
    hilo,                         \* the messages of the thread, oldest first
    ejecucion,                    \* the run handle, or None before the first run
    por_moderar,                  \* texts of the response the inner loop has yet to visit
    llamadas,                     \* calls made in this iteration, in order
    salida,                       \* lines printed in this iteration, in order
    atributos,                    \* span attributes set in this iteration
    mod_args,                     \* arguments of a call of moderar_texto on its own
    mod_ret,                      \* what that call returned
    mcp_proceso,                  \* OrquestadorInicio.mcp_proceso: the Popen handle, or None
    mcp_activo,                   \* OrquestadorInicio.mcp_activo
    procesos,                     \* the children spawned, by pid: "running" or "exited"
    contexto,                     \* who called the supervisor method that is running
    devuelto,                     \* the last return of a supervisor method
    operaciones,                  \* the subprocess operations of the supervisor, in order
    tool_args,                    \* a joke tool and the outcome of its HTTP request
    tool_ret                      \* what the tool returned

\* the state of the supervisor of inicio.py
vars_inicio == <<mcp_proceso, mcp_activo, procesos, contexto, devuelto, operaciones>>

\* the state of a call of a tool of chuck_norris_server.py
vars_chuck == <<tool_args, tool_ret>>

\* the state of conversar_agente.py other than the position
vars_conversar ==
    <<cliente_seguridad_contenido, contador_conversacion, entrada_usuario, hilo, ejecucion,
      por_moderar, llamadas, salida, atributos, mod_args, mod_ret>>

vars == <<pc, cliente_seguridad_contenido, contador_conversacion, entrada_usuario, hilo,
          ejecucion, por_moderar, llamadas, salida, atributos, mod_args, mod_ret,
          mcp_proceso, mcp_activo, procesos, contexto, devuelto, operaciones,
          tool_args, tool_ret>>

\* the supervisor as __init__ leaves it (lines 48-49), no child spawned
InicioSinArrancar ==
    /\ mcp_proceso = None
    /\ mcp_activo = FALSE
    /\ procesos = <<>>
    /\ contexto = "ninguno"
    /\ devuelto = None
    /\ operaciones = <<>>

\* no tool called
ChuckSinLlamar ==
    /\ tool_args = None
    /\ tool_ret = None

\* the state when the loop is entered: thread created, counter 0
Init ==
    /\ pc = "leer"
    /\ cliente_seguridad_contenido \in {None, ClienteConfigurado}
    /\ contador_conversacion = 0
    /\ entrada_usuario = <<>>
    /\ hilo = <<>>
    /\ ejecucion = None
    /\ por_moderar = <<>>
    /\ llamadas = <<>>
    /\ salida = <<>>
    /\ atributos = {}
    /\ mod_args = None
    /\ mod_ret = None
    /\ InicioSinArrancar
    /\ ChuckSinLlamar

\* a verdict as the loop uses it: es_seguro, the kind of motivo, and whether an
\* analysis came back (its categories are only printed)
Resumen(v) ==
    [v EXCEPT !.motivo = [tipo |-> v.motivo.tipo],
              !.respuesta = IF v.respuesta = None THEN None ELSE [tipo |-> "AnalyzeTextResult"]]

\* the verdicts moderar_texto can return on a text in the loop
Veredictos(texto) ==
    {Resumen(moderar_texto(texto, cliente_seguridad_contenido, backend)) :
        backend \in ResultadosBackendSesion}

\* the record of one evaluation of the gate
EventoModeracion(fase, texto, v) ==
    [op |-> "moderar_texto", fase |-> fase, texto |-> texto,
     es_seguro |-> v.es_seguro, motivo |-> v.motivo.tipo,
     fallo_backend |-> v.llamo_backend /\ v.motivo.tipo = "no_disponible",
     llamo_backend |-> v.llamo_backend, con_categorias |-> v.respuesta # None]

\* the id of the thread created at line 273 and the id of the agent fetched at
\* line 264, both before the loop
IdHilo == "hilo.id"
IdAgente == "agente.id"

\* a thread of its own for every turn
IdHiloLlamada_por_turno(turno) == ToString(turno)

\* thread_id=hilo.id in the calls of a turn: hilo is assigned at line 273 only
IdHiloLlamada(turno) == IdHilo

\* agent_id=agente.id in runs.create: agente is assigned at line 264 only
IdAgenteLlamada(turno) == IdAgente

\* the identifiers an agent-service call of a turn is made with
Argumentos(op, turno) ==
    IF op = "runs.create"
    THEN [thread_id |-> IdHiloLlamada(turno), agent_id |-> IdAgenteLlamada(turno)]
    ELSE [thread_id |-> IdHiloLlamada(turno)]

\* the record of a runs.create or runs.get that returned a run with this status
EventoEjecucion(op, status) ==
    [op |-> op, ok |-> TRUE, terminal |-> status \in EstadosTerminales]
        @@ Argumentos(op, contador_conversacion)

\* the warning the except branch of moderar_texto prints
LineasAdvertencia(v) == IF v.advertencia THEN <<[tipo |-> "advertencia_moderacion"]>> ELSE <<>>

\* the input gate never stopping the turn
EntradaBloqueada_nunca(v) == FALSE

\* the test of the input gate inverted
EntradaBloqueada_invertida(v) == v.es_seguro

\* the input gate also stopping the turn when no analysis came back
EntradaBloqueada_sin_analisis(v) == ~v.es_seguro \/ v.respuesta = None

\* the test of line 312: the turn stops at the input gate
EntradaBloqueada(v) == ~v.es_seguro

\* the inner loop printing the text whatever the verdict
ImpresionRespuesta_sin_puerta(respuesta_agente, v) ==
    <<[tipo |-> "entrega", texto |-> respuesta_agente]>>
        \o (IF v.respuesta # None THEN <<[tipo |-> "analisis_categorias"]>> ELSE <<>>)

\* the blocked branch printing the refusal alone
ImpresionRespuesta_solo_rechazo(respuesta_agente, v) ==
    IF v.es_seguro
    THEN <<[tipo |-> "entrega", texto |-> respuesta_agente]>>
            \o (IF v.respuesta # None THEN <<[tipo |-> "analisis_categorias"]>> ELSE <<>>)
    ELSE <<[tipo |-> "rechazo_respuesta"]>>

\* what the inner loop prints for one text of the response, given its verdict:
\* the text and its analysis, or the generic refusal and the analysis
ImpresionRespuesta(respuesta_agente, v) ==
    IF v.es_seguro
    THEN <<[tipo |-> "entrega", texto |-> respuesta_agente]>>
            \o (IF v.respuesta # None THEN <<[tipo |-> "analisis_categorias"]>> ELSE <<>>)
    ELSE <<[tipo |-> "rechazo_respuesta"]>>
            \o imprimir_resultados_seguridad_contenido(v.respuesta)

\* the counter incremented only once the line is known not to be blank
ContadorTras_no_vacio(contador, valor) == IF valor = <<>> THEN contador ELSE contador + 1

\* line 287: the counter after the increment at the top of an iteration,
\* which comes before the line is read
ContadorTras(contador, valor) == contador + 1

\* the exit check comparing the line as typed
EsSalida_sin_lower(valor) == valor \in PalabrasSalida

\* line 296: the exit check
EsSalida(valor) == lower(valor) \in PalabrasSalida

\* the empty check left out
EntradaVacia_nunca(valor) == FALSE

\* line 301: the empty check
EntradaVacia(valor) == valor = <<>>

\* the message never posted before the run is created
PasoTrasEntradaSegura_sin_mensaje == "crear_ejecucion"

\* the loop going back to the read after a safe input
PasoTrasEntradaSegura_leer == "leer"

\* lines 319-323: past the input gate the script posts the message
PasoTrasEntradaSegura == "crear_mensaje"

\* the polling loop not waiting on requires_action
SigueSondeando_sin_requires(status) == status \in {"queued", "in_progress"}

\* the polling loop waiting only while the run is queued
SigueSondeando_solo_queued(status) == status = "queued"

\* line 337: the condition of the polling loop
SigueSondeando(status) == status \in {"queued", "in_progress", "requires_action"}

(***************************************************************************)
(* The loop, one action per blocking call                                  *)
(***************************************************************************)
\* top of the loop: count the turn, read the line, exit check, empty check
LeerEntrada ==
    /\ pc = "leer"
    /\ contador_conversacion < MaxTurnos
    /\ \E lectura \in Lecturas :
          LET leido == obtener_entrada_usuario_segura(lectura) IN
          /\ contador_conversacion' = ContadorTras(contador_conversacion, leido.valor)
          /\ entrada_usuario' = leido.valor
          /\ llamadas' = <<>>
          /\ por_moderar' = <<>>
          /\ IF EsSalida(leido.valor)
             THEN /\ salida' = leido.impreso \o <<[tipo |-> "despedida"]>>
                  /\ atributos' = {"conversation.ended"}
                  /\ pc' = "terminado"
             ELSE IF EntradaVacia(leido.valor)
             THEN /\ salida' = leido.impreso
                  /\ atributos' = {"user.input_empty"}
                  /\ pc' = "leer"
             ELSE /\ salida' = leido.impreso
                  /\ atributos' = {}
                  /\ pc' = "moderar_entrada"
    /\ UNCHANGED <<vars_inicio, vars_chuck>>
    /\ UNCHANGED <<cliente_seguridad_contenido, hilo, ejecucion, mod_args, mod_ret>>

\* moderacion_entrada_usuario: the gate on the input, the analysis print, the refusal
ModerarEntrada ==
    /\ pc = "moderar_entrada"
    /\ \E v \in Veredictos(entrada_usuario) :
          /\ llamadas' = Append(llamadas, EventoModeracion("entrada", entrada_usuario, v))
          /\ IF EntradaBloqueada(v)
             THEN /\ salida' = salida \o LineasAdvertencia(v)
                                  \o imprimir_resultados_seguridad_contenido(v.respuesta)
                                  \o <<[tipo |-> "rechazo_entrada"]>>
                  /\ atributos' = atributos \cup {"user.input_blocked", "block_reason"}
                  /\ pc' = "leer"
             ELSE /\ salida' = salida \o LineasAdvertencia(v)
                                  \o imprimir_resultados_seguridad_contenido(v.respuesta)
                  /\ atributos' = atributos \cup {"user.input_safe"}
                  /\ pc' = PasoTrasEntradaSegura
    /\ UNCHANGED <<vars_inicio, vars_chuck>>
    /\ UNCHANGED <<cliente_seguridad_contenido, contador_conversacion, entrada_usuario, hilo,
                   ejecucion, por_moderar, mod_args, mod_ret>>

\* an exception of an agent-service call: nothing in the loop catches it, so it
\* leaves the while loop and the with blocks and the interpreter prints it
Propagar(op) ==
    /\ llamadas' = Append(llamadas, [op |-> op, ok |-> FALSE]
                                         @@ Argumentos(op, contador_conversacion))
    /\ salida' = Append(salida, [tipo |-> "traceback"])
    /\ pc' = "abortado"

\* crear_mensaje_usuario: messages.create
CrearMensaje ==
    /\ pc = "crear_mensaje"
    /\ \/ /\ hilo' = Append(hilo, MensajeUsuario(contador_conversacion, entrada_usuario))
          /\ llamadas' = Append(llamadas, [op |-> "messages.create", ok |-> TRUE]
                                               @@ Argumentos("messages.create", contador_conversacion))
          /\ pc' = "crear_ejecucion"
          /\ salida' = salida
       \/ /\ Propagar("messages.create")
          /\ hilo' = hilo
    /\ UNCHANGED <<vars_inicio, vars_chuck>>
    /\ UNCHANGED <<cliente_seguridad_contenido, contador_conversacion, entrada_usuario,
                   ejecucion, por_moderar, atributos, mod_args, mod_ret>>

\* ejecutar_agente: runs.create and the first test of the polling loop
CrearEjecucion ==
    /\ pc = "crear_ejecucion"
    /\ \/ \E status \in EstadosEjecucion, escritura \in EscriturasEjecucion :
             /\ ejecucion' = [id |-> contador_conversacion, status |-> status]
             /\ hilo' = HiloTras(hilo, contador_conversacion, status, escritura)
             /\ llamadas' = Append(llamadas, EventoEjecucion("runs.create", status))
             /\ salida' = salida
             /\ pc' = IF SigueSondeando(status) THEN "sondear" ELSE "listar"
       \/ /\ Propagar("runs.create")
          /\ UNCHANGED <<ejecucion, hilo>>
    /\ UNCHANGED <<vars_inicio, vars_chuck>>
    /\ UNCHANGED <<cliente_seguridad_contenido, contador_conversacion, entrada_usuario,
                   por_moderar, atributos, mod_args, mod_ret>>

\* number of runs.get calls made in this iteration
Sondeos == Cardinality({i \in 1..Len(llamadas) : llamadas[i].op = "runs.get"})

\* one pass of the polling loop: sleep, runs.get, test of the status
Sondear ==
    /\ pc = "sondear"
    /\ \/ \E status \in (IF Sondeos + 1 < MaxSondeos THEN EstadosEjecucion ELSE EstadosTerminales),
             escritura \in EscriturasEjecucion :
             /\ ejecucion' = [id |-> ejecucion.id, status |-> status]
             /\ hilo' = HiloTras(hilo, contador_conversacion, status, escritura)
             /\ llamadas' = Append(llamadas, EventoEjecucion("runs.get", status))
             /\ salida' = salida
             /\ pc' = IF SigueSondeando(status) THEN "sondear" ELSE "listar"
       \/ /\ Propagar("runs.get")
          /\ UNCHANGED <<ejecucion, hilo>>
    /\ UNCHANGED <<vars_inicio, vars_chuck>>
    /\ UNCHANGED <<cliente_seguridad_contenido, contador_conversacion, entrada_usuario,
                   por_moderar, atributos, mod_args, mod_ret>>

\* obtener_respuesta_agente: messages.list and the search of the newest assistant
\* message; with no text to visit the loops end and the blank line closes the turn
ListarMensajes ==
    /\ pc = "listar"
    /\ \/ LET textos == TextosRespuesta(Descendente(hilo)) IN
          /\ por_moderar' = textos
          /\ llamadas' = Append(llamadas, [op |-> "messages.list", ok |-> TRUE]
                                               @@ Argumentos("messages.list", contador_conversacion))
          /\ salida' = salida
          /\ pc' = IF textos = <<>> THEN "leer" ELSE "moderar_respuesta"
       \/ /\ Propagar("messages.list")
          /\ por_moderar' = por_moderar
    /\ UNCHANGED <<vars_inicio, vars_chuck>>
    /\ UNCHANGED <<cliente_seguridad_contenido, contador_conversacion, entrada_usuario, hilo,
                   ejecucion, atributos, mod_args, mod_ret>>

\* the body of the inner loop for one MessageTextContent: the gate on the text,
\* then the text or the refusal; after the last one the blank line closes the turn
ModerarRespuesta ==
    /\ pc = "moderar_respuesta"
    /\ \E v \in Veredictos(Head(por_moderar)) :
          LET respuesta_agente == Head(por_moderar) IN
          /\ llamadas' = Append(llamadas, EventoModeracion("respuesta", respuesta_agente, v))
          /\ salida' = salida \o LineasAdvertencia(v) \o ImpresionRespuesta(respuesta_agente, v)
          /\ atributos' = atributos \cup
                IF v.es_seguro
                THEN {"agent.response", "agent.response_safe"}
                ELSE {"agent.response", "agent.response_blocked", "agent.block_reason"}
    /\ por_moderar' = Tail(por_moderar)
    /\ pc' = IF Tail(por_moderar) = <<>> THEN "leer" ELSE "moderar_respuesta"
    /\ UNCHANGED <<vars_inicio, vars_chuck>>
    /\ UNCHANGED <<cliente_seguridad_contenido, contador_conversacion, entrada_usuario, hilo,
                   ejecucion, mod_args, mod_ret>>

Next ==
    \/ LeerEntrada
    \/ ModerarEntrada
    \/ CrearMensaje
    \/ CrearEjecucion
    \/ Sondear
    \/ ListarMensajes
    \/ ModerarRespuesta

Spec == Init /\ [][Next]_vars

\* the steps of a turn after the read: each is a blocking call that returns
PasoDeTurno ==
    \/ ModerarEntrada
    \/ CrearMensaje
    \/ CrearEjecucion
    \/ Sondear
    \/ ListarMensajes
    \/ ModerarRespuesta

\* the session started without CONTENT_SAFETY_ENDPOINT, or the construction of
\* the client raised: cliente_seguridad_contenido is None
InitSinModeracion == Init /\ cliente_seguridad_contenido = None

\* the loop of that session when every call it makes returns or raises: the
\* script is one thread that always takes its next step; only the read may
\* wait for ever
SpecJusta == InitSinModeracion /\ [][Next]_vars /\ WF_vars(PasoDeTurno)

(***************************************************************************)
(* moderar_texto on its own: one call on arguments drawn from the texts,   *)
(* the two clients and every outcome of analyze_text                       *)
(***************************************************************************)
TextosModerados == {<<"b", "y", "e", "!">>, TextoParte(1, 1)}

InitModerar ==
    /\ pc = "moderar_texto"
    /\ cliente_seguridad_contenido \in {None, ClienteConfigurado}
    /\ contador_conversacion = 0
    /\ entrada_usuario = <<>>
    /\ hilo = <<>>
    /\ ejecucion = None
    /\ por_moderar = <<>>
    /\ llamadas = <<>>
    /\ salida = <<>>
    /\ atributos = {}
    /\ mod_args \in {[texto |-> t, backend |-> b] : t \in TextosModerados, b \in ResultadosBackend}
    /\ mod_ret = None
    /\ InicioSinArrancar
    /\ ChuckSinLlamar

\* the call returns
LlamarModerar ==
    /\ pc = "moderar_texto"
    /\ mod_ret' = moderar_texto(mod_args.texto, cliente_seguridad_contenido, mod_args.backend)
    /\ salida' = LineasAdvertencia(mod_ret')
    /\ pc' = "retorno"
    /\ UNCHANGED <<vars_inicio, vars_chuck>>
    /\ UNCHANGED <<cliente_seguridad_contenido, contador_conversacion, entrada_usuario, hilo,
                   ejecucion, por_moderar, llamadas, atributos, mod_args>>

NextModerar == LlamarModerar

SpecModerar == InitModerar /\ [][NextModerar]_vars

(***************************************************************************)
(* inicio.py: OrquestadorInicio and the MCP server it starts as a child    *)
(***************************************************************************)
\* the stop signalling whatever handle it holds, without the poll
ProcesoCorriendo_sin_poll(proc, procs) == proc # None

\* line 221: self.mcp_proceso and self.mcp_proceso.poll() is None
ProcesoCorriendo(proc, procs) == proc # None /\ procs[proc.pid] = "running"

\* iniciar_mcp without its first test
YaActivo_nunca(activo) == FALSE

\* line 162: if self.mcp_activo
YaActivo(activo) == activo

\* the children that are running
Corriendo == {p \in DOMAIN procesos : procesos[p] = "running"}

\* stops that raised so far
ErroresDeParada ==
    Cardinality({i \in DOMAIN operaciones : operaciones[i].resultado = "error"})

\* where the caller of a method goes on when the method returns
Sigue(ctx) == IF ctx = "llamada" THEN "reposo" ELSE "menu"

\* a method called from the menu or by a caller of the class returns
Volver(op, ret) ==
    /\ devuelto' = [op |-> op, ret |-> ret]
    /\ pc' = Sigue(contexto)
    /\ contexto' = "ninguno"

\* _detener_mcp returns to whoever called it: detener_mcp, the finally clause
\* of ejecutar (then ejecutar ends), or _manejar_interrupcion, whose
\* sys.exit(0) unwinds ejecutar through its finally clause unless the signal
\* came while that clause was running
Volver_detener_mcp(ret) ==
    /\ devuelto' = [op |-> "_detener_mcp", ret |-> ret]
    /\ CASE contexto = "senal" -> pc' = "detener" /\ contexto' = "finally"
         [] contexto \in {"finally", "senal_en_finally"} -> pc' = "fin" /\ contexto' = "ninguno"
         [] OTHER -> pc' = Sigue(contexto) /\ contexto' = "ninguno"

\* iniciar_mcp up to the Popen: lines 162-164
Entrar_iniciar_mcp(ctx) ==
    IF YaActivo(mcp_activo)
    THEN /\ devuelto' = [op |-> "iniciar_mcp", ret |-> TRUE]
         /\ pc' = Sigue(ctx)
         /\ contexto' = "ninguno"
    ELSE /\ pc' = "popen"
         /\ contexto' = ctx
         /\ devuelto' = devuelto

\* detener_mcp: lines 211-215
Entrar_detener_mcp(ctx) ==
    IF ~mcp_activo
    THEN /\ devuelto' = [op |-> "detener_mcp", ret |-> TRUE]
         /\ pc' = Sigue(ctx)
         /\ contexto' = "ninguno"
    ELSE /\ pc' = "detener"
         /\ contexto' = ctx
         /\ devuelto' = devuelto

\* what the user answers to obtener_opcion_usuario of gestionar_mcp; None is
\* a cancelled or ended input
OpcionesMcp == {"1", "2", "cancelado"}

\* gestionar_mcp: lines 247-264
gestionar_mcp(opcion, ctx) ==
    IF opcion = "1"
    THEN IF mcp_activo THEN Entrar_detener_mcp(ctx) ELSE Entrar_iniciar_mcp(ctx)
    ELSE /\ pc' = Sigue(ctx)
         /\ contexto' = "ninguno"
         /\ devuelto' = devuelto

\* iniciar_mcp, lines 165-182: the file is missing or Popen raises, and the
\* method returns False; or the child is spawned
IniciarPopen ==
    /\ pc = "popen"
    /\ \/ /\ Volver("iniciar_mcp", FALSE)
          /\ UNCHANGED <<procesos, operaciones>>
       \/ /\ Len(procesos) < MaxArranques
          /\ procesos' = Append(procesos, "running")
          /\ operaciones' = Append(operaciones,
                                   [op |-> "Popen", pid |-> Len(procesos) + 1, resultado |-> "ok"])
          /\ pc' = "asignar"
          /\ UNCHANGED <<contexto, devuelto>>
    /\ UNCHANGED <<mcp_proceso, mcp_activo>>
    /\ UNCHANGED <<vars_conversar, vars_chuck>>

\* line 176: the handle of the child just spawned is stored in self.mcp_proceso;
\* then the sleep of line 185
IniciarAsignar ==
    /\ pc = "asignar"
    /\ mcp_proceso' = [tipo |-> "Popen", pid |-> Len(procesos)]
    /\ pc' = "verificar"
    /\ UNCHANGED <<mcp_activo, procesos, contexto, devuelto, operaciones>>
    /\ UNCHANGED <<vars_conversar, vars_chuck>>

\* lines 188-201: poll() after the sleep
IniciarVerificar ==
    /\ pc = "verificar"
    /\ IF procesos[mcp_proceso.pid] = "running"
       THEN /\ mcp_activo' = TRUE
            /\ Volver("iniciar_mcp", TRUE)
       ELSE /\ mcp_activo' = mcp_activo
            /\ Volver("iniciar_mcp", FALSE)
    /\ UNCHANGED <<mcp_proceso, procesos, operaciones>>
    /\ UNCHANGED <<vars_conversar, vars_chuck>>

\* _detener_mcp, lines 221-241 but for the forced close: with a running child,
\* terminate() and wait(timeout=5); the child exits in time, or the wait
\* times out, or one of the two raises another exception
Detener ==
    /\ pc = "detener"
    /\ IF ProcesoCorriendo(mcp_proceso, procesos)
       THEN \/ /\ operaciones' = Append(operaciones,
                       [op |-> "terminate", pid |-> mcp_proceso.pid, resultado |-> "ok"])
               /\ procesos' = [procesos EXCEPT ![mcp_proceso.pid] = "exited"]
               /\ mcp_activo' = FALSE
               /\ Volver_detener_mcp(TRUE)
            \/ /\ operaciones' = Append(operaciones,
                       [op |-> "terminate", pid |-> mcp_proceso.pid, resultado |-> "timeout"])
               /\ pc' = "forzar"
               /\ UNCHANGED <<procesos, mcp_activo, contexto, devuelto>>
            \/ /\ ErroresDeParada < MaxErrores
               /\ operaciones' = Append(operaciones,
                       [op |-> "terminate", pid |-> mcp_proceso.pid, resultado |-> "error"])
               /\ Volver_detener_mcp(FALSE)
               /\ UNCHANGED <<procesos, mcp_activo>>
       ELSE /\ mcp_activo' = FALSE
            /\ Volver_detener_mcp(TRUE)
            /\ UNCHANGED <<procesos, operaciones>>
    /\ mcp_proceso' = mcp_proceso
    /\ UNCHANGED <<vars_conversar, vars_chuck>>

\* lines 229-235: kill() and wait() after the timeout
Forzar ==
    /\ pc = "forzar"
    /\ operaciones' = Append(operaciones, [op |-> "kill", pid |-> mcp_proceso.pid, resultado |-> "ok"])
    /\ procesos' = [procesos EXCEPT ![mcp_proceso.pid] = "exited"]
    /\ mcp_activo' = FALSE
    /\ Volver_detener_mcp(TRUE)
    /\ mcp_proceso' = mcp_proceso
    /\ UNCHANGED <<vars_conversar, vars_chuck>>

\* a child exits on its own
ProcesoTermina ==
    /\ \E p \in Corriendo : procesos' = [procesos EXCEPT ![p] = "exited"]
    /\ UNCHANGED <<pc, mcp_proceso, mcp_activo, contexto, devuelto, operaciones>>
    /\ UNCHANGED <<vars_conversar, vars_chuck>>

\* ejecutar up to the menu: validar_entorno fails and ejecutar returns through
\* its finally clause, or the menu loop starts
ValidarEntorno ==
    /\ pc = "inicio"
    /\ \E valido \in BOOLEAN :
          IF valido
          THEN pc' = "menu" /\ contexto' = contexto
          ELSE pc' = "detener" /\ contexto' = "finally"
    /\ UNCHANGED <<mcp_proceso, mcp_activo, procesos, devuelto, operaciones>>
    /\ UNCHANGED <<vars_conversar, vars_chuck>>

\* what the user answers at the main menu
OpcionesMenu == {"1", "2", "3", "4", "5", "cancelado"}

\* one pass of the menu loop of ejecutar: option 5 or a cancelled input leaves
\* the loop, option 3 is gestionar_mcp, the other options return to the menu
\* or raise, and the except clauses lead to the finally clause
MenuPrincipal ==
    /\ pc = "menu"
    /\ \E opcion \in OpcionesMenu :
          CASE opcion \in {"5", "cancelado"} ->
                  pc' = "detener" /\ contexto' = "finally" /\ devuelto' = devuelto
            [] opcion = "3" ->
                  \E opcion_mcp \in OpcionesMcp : gestionar_mcp(opcion_mcp, "menu")
            [] OTHER ->
                  \E excepcion \in BOOLEAN :
                      IF excepcion
                      THEN pc' = "detener" /\ contexto' = "finally" /\ devuelto' = devuelto
                      ELSE UNCHANGED <<pc, contexto, devuelto>>
    /\ UNCHANGED <<mcp_proceso, mcp_activo, procesos, operaciones>>
    /\ UNCHANGED <<vars_conversar, vars_chuck>>

\* SIGINT or SIGTERM: _manejar_interrupcion runs where the main flow stands,
\* calls _detener_mcp and then sys.exit(0)
Senal ==
    /\ pc # "fin"
    /\ contexto \notin {"senal", "senal_en_finally"}
    /\ pc' = "detener"
    /\ contexto' = IF contexto = "finally" THEN "senal_en_finally" ELSE "senal"
    /\ UNCHANGED <<mcp_proceso, mcp_activo, procesos, devuelto, operaciones>>
    /\ UNCHANGED <<vars_conversar, vars_chuck>>

\* main: the supervisor constructed, ejecutar about to run
InitInicio ==
    /\ pc = "inicio"
    /\ cliente_seguridad_contenido = None
    /\ contador_conversacion = 0
    /\ entrada_usuario = <<>>
    /\ hilo = <<>>
    /\ ejecucion = None
    /\ por_moderar = <<>>
    /\ llamadas = <<>>
    /\ salida = <<>>
    /\ atributos = {}
    /\ mod_args = None
    /\ mod_ret = None
    /\ InicioSinArrancar
    /\ ChuckSinLlamar

NextInicio ==
    \/ ValidarEntorno
    \/ MenuPrincipal
    \/ IniciarPopen
    \/ IniciarAsignar
    \/ IniciarVerificar
    \/ Detener
    \/ Forzar
    \/ ProcesoTermina
    \/ Senal

SpecInicio == InitInicio /\ [][NextInicio]_vars

\* the methods a caller of the class may call between two calls
MetodosMcp == {"iniciar_mcp", "detener_mcp", "_detener_mcp", "gestionar_mcp"}

\* a caller calls one of the methods
LlamarMetodo ==
    /\ pc = "reposo"
    /\ \E metodo \in MetodosMcp :
          CASE metodo = "iniciar_mcp" -> Entrar_iniciar_mcp("llamada")
            [] metodo = "detener_mcp" -> Entrar_detener_mcp("llamada")
            [] metodo = "_detener_mcp" ->
                  pc' = "detener" /\ contexto' = "llamada" /\ devuelto' = devuelto
            [] OTHER -> \E opcion_mcp \in OpcionesMcp : gestionar_mcp(opcion_mcp, "llamada")
    /\ UNCHANGED <<mcp_proceso, mcp_activo, procesos, operaciones>>
    /\ UNCHANGED <<vars_conversar, vars_chuck>>

\* the supervisor constructed, no method running
InitMetodos ==
    /\ pc = "reposo"
    /\ cliente_seguridad_contenido = None
    /\ contador_conversacion = 0
    /\ entrada_usuario = <<>>
    /\ hilo = <<>>
    /\ ejecucion = None
    /\ por_moderar = <<>>
    /\ llamadas = <<>>
    /\ salida = <<>>
    /\ atributos = {}
    /\ mod_args = None
    /\ mod_ret = None
    /\ InicioSinArrancar
    /\ ChuckSinLlamar

NextMetodos ==
    \/ LlamarMetodo
    \/ IniciarPopen
    \/ IniciarAsignar
    \/ IniciarVerificar
    \/ Detener
    \/ Forzar
    \/ ProcesoTermina

\* any sequence of calls of the MCP methods, one at a time
SpecMetodos == InitMetodos /\ [][NextMetodos]_vars

(***************************************************************************)
(* chuck_norris_server.py: the four tools, each a function of the outcome  *)
(* of its HTTP request                                                     *)
(***************************************************************************)
\* Python values, as they come out of response.json() and as the tools build
\* them: the type, the characters of a str, the elements of a list, the
\* <<key, value>> items of a dict
Str(x) == [t |-> "str", chars |-> x, v |-> <<>>, items |-> {}]
Num == [t |-> "num", chars |-> <<>>, v |-> <<>>, items |-> {}]
Null == [t |-> "null", chars |-> <<>>, v |-> <<>>, items |-> {}]
List(x) == [t |-> "list", chars |-> <<>>, v |-> x, items |-> {}]
Dict(items) == [t |-> "dict", chars |-> <<>>, v |-> <<>>, items |-> items]

\* d.get(k, default) on a dict
Get(d, k, default) ==
    IF \E it \in d.items : it[1] = k
    THEN (CHOOSE it \in d.items : it[1] = k)[2]
    ELSE default

Atomos == {Str(<<"a">>), Str(<<>>), Num, Null}

\* entries of the "result" list of a search: a joke, a dict without "value",
\* something that is not a dict
EntradasResultado ==
    {Dict({<<"value", Str(<<"a">>)>>, <<"id", Str(<<"i">>)>>}), Dict({}), Num}

\* bodies that parse as JSON
Cuerpos ==
    Atomos
      \cup {List(x) : x \in SeqHasta({Str(<<"a">>), Num}, 2)}
      \cup {Dict({})}
      \cup {Dict({<<"value", x>>}) : x \in Atomos \cup {List(<<>>)}}
      \cup {Dict({<<"result", x>>}) : x \in Atomos \cup {Dict({})}}
      \cup {Dict({<<"result", List(x)>>}) : x \in SeqHasta(EntradasResultado, MaxChistes)}

\* the outcomes of client.get, raise_for_status and response.json(): a transport
\* error and an error status are httpx.HTTPError, a body that is not JSON makes
\* json() raise, otherwise the parsed body
ResultadosHttp ==
    {[tipo |-> "transporte"], [tipo |-> "estado"], [tipo |-> "no_json"]}
      \cup {[tipo |-> "json", cuerpo |-> c] : c \in Cuerpos}

ErrorConexion == Str(<<"Error al conectar con la API">>)
ErrorInesperado == Str(<<"Error inesperado">>)

\* get_random_joke: .get on a body that is not a dict raises and
\* the last except returns its message
get_random_joke(http) ==
    CASE http.tipo \in {"transporte", "estado"} -> ErrorConexion
      [] http.tipo = "no_json" -> ErrorInesperado
      [] OTHER ->
            IF http.cuerpo.t # "dict" THEN ErrorInesperado
            ELSE Get(http.cuerpo, "value", Str(<<"No se pudo obtener el chiste">>))

\* get_joke_by_category: the same on /random?category=...
get_joke_by_category(category, http) ==
    CASE http.tipo \in {"transporte", "estado"} -> ErrorConexion
      [] http.tipo = "no_json" -> ErrorInesperado
      [] OTHER ->
            IF http.cuerpo.t # "dict" THEN ErrorInesperado
            ELSE Get(http.cuerpo, "value", Str(<<"No se pudo obtener el chiste">>))

\* get_joke_categories: a body that is a list is returned as it is
get_joke_categories(http) ==
    CASE http.tipo \in {"transporte", "estado"} -> List(<<ErrorConexion>>)
      [] http.tipo = "no_json" -> List(<<ErrorInesperado>>)
      [] OTHER -> IF http.cuerpo.t = "list" THEN http.cuerpo ELSE List(<<>>)

\* the limit of the slice jokes[:5]
LimiteResultados == 5

\* jokes[:5] where it does not raise: a list, or a string (its characters)
Primeros(jokes) ==
    IF jokes.t = "list"
    THEN SubSeq(jokes.v, 1, IF Len(jokes.v) < LimiteResultados THEN Len(jokes.v)
                            ELSE LimiteResultados)
    ELSE [i \in 1..(IF Len(jokes.chars) < LimiteResultados THEN Len(jokes.chars)
                    ELSE LimiteResultados) |-> Str(<<jokes.chars[i]>>)]

\* the dict appended for one entry
Formateado(joke) ==
    Dict({<<"joke", Get(joke, "value", Str(<<>>))>>,
          <<"id", Get(joke, "id", Str(<<>>))>>,
          <<"url", Get(joke, "url", Str(<<>>))>>,
          <<"categories", Get(joke, "categories", List(<<>>))>>})

\* search_jokes: any entry that is not a dict raises and the whole result is
\* the error entry
search_jokes(query, http) ==
    CASE http.tipo \in {"transporte", "estado"} ->
            List(<<Dict({<<"error", ErrorConexion>>})>>)
      [] http.tipo = "no_json" -> List(<<Dict({<<"error", ErrorInesperado>>})>>)
      [] OTHER ->
            LET fallo == List(<<Dict({<<"error", ErrorInesperado>>})>>) IN
            IF http.cuerpo.t # "dict" THEN fallo
            ELSE LET jokes == Get(http.cuerpo, "result", List(<<>>)) IN
                 IF jokes.t \notin {"list", "str"} THEN fallo
                 ELSE LET primeros == Primeros(jokes) IN
                      IF \E i \in DOMAIN primeros : primeros[i].t # "dict" THEN fallo
                      ELSE List([i \in DOMAIN primeros |-> Formateado(primeros[i])])

Herramientas == {"get_random_joke", "get_joke_categories", "get_joke_by_category", "search_jokes"}

\* a tool about to be called, the outcome of its request drawn
InitChuck ==
    /\ pc = "tool"
    /\ cliente_seguridad_contenido = None
    /\ contador_conversacion = 0
    /\ entrada_usuario = <<>>
    /\ hilo = <<>>
    /\ ejecucion = None
    /\ por_moderar = <<>>
    /\ llamadas = <<>>
    /\ salida = <<>>
    /\ atributos = {}
    /\ mod_args = None
    /\ mod_ret = None
    /\ InicioSinArrancar
    /\ tool_args \in {[tool |-> h, http |-> r] : h \in Herramientas, r \in ResultadosHttp}
    /\ tool_ret = None

\* the tool returns
LlamarTool ==
    /\ pc = "tool"
    /\ tool_ret' = CASE tool_args.tool = "get_random_joke" -> get_random_joke(tool_args.http)
                     [] tool_args.tool = "get_joke_categories" ->
                           get_joke_categories(tool_args.http)
                     [] tool_args.tool = "get_joke_by_category" ->
                           get_joke_by_category(<<"d", "e", "v">>, tool_args.http)
                     [] OTHER -> search_jokes(<<"c">>, tool_args.http)
    /\ pc' = "tool_retorno"
    /\ tool_args' = tool_args
    /\ UNCHANGED <<vars_conversar, vars_inicio>>

NextChuck == LlamarTool

SpecChuck == InitChuck /\ [][NextChuck]_vars

(***************************************************************************)
(* Vocabulary of the properties                                            *)
(***************************************************************************)
\* positions in llamadas of the evaluations of the gate in a phase
Evaluaciones(fase) ==
    {i \in DOMAIN llamadas : llamadas[i].op = "moderar_texto" /\ llamadas[i].fase = fase}

TodasEvaluaciones == Evaluaciones("entrada") \cup Evaluaciones("respuesta")

\* positions in llamadas of the agent-service calls that raised
LlamadasFallidas ==
    {i \in DOMAIN llamadas : llamadas[i].op # "moderar_texto" /\ ~llamadas[i].ok}

\* positions in salida of the lines of a kind
Lineas(tipos) == {k \in DOMAIN salida : salida[k].tipo \in tipos}

\* positions in salida where the text t is printed as the agent's answer
Entregas(t) == {k \in DOMAIN salida : salida[k].tipo = "entrega" /\ salida[k].texto = t}

\* the lines that are the turn's message to the user; the interpreter's
\* report of an uncaught exception is counted as a failure notice
TiposMensaje == {"rechazo_entrada", "rechazo_respuesta", "entrega", "aviso_fallo", "traceback"}

\* the iteration that ran last has ended and the loop is back at its top
TurnoTerminado == pc = "leer" /\ contador_conversacion > 0

\* the newest assistant message of the thread, None when there is none
IndicesAsistente == {i \in DOMAIN hilo : hilo[i].role = "assistant"}

UltimoAsistente ==
    IF IndicesAsistente = {} THEN None
    ELSE hilo[CHOOSE i \in IndicesAsistente : \A j \in IndicesAsistente : j <= i]

\* positions of the text parts of a message
PartesTexto(m) == IF m = None THEN {} ELSE {i \in DOMAIN m.content : m.content[i].tipo = "text"}

\* analyze_text raised, or its response makes the loop over it raise
BackendFalla(b) ==
    \/ b = ExcepcionBackend
    \/ \E i \in DOMAIN b.categories_analysis : b.categories_analysis[i].severity = SeveridadNone

\* the largest severity of a response, 0 for an empty one
SeveridadMaximaDe(b) ==
    LET sevs == {b.categories_analysis[i].severity : i \in DOMAIN b.categories_analysis} \cup {0}
    IN  CHOOSE m \in sevs : \A x \in sevs : x <= m

(***************************************************************************)
(* Properties                                                              *)
(***************************************************************************)
\* C1: every agent text printed in a turn was evaluated by the gate in that
\* turn after the gate was evaluated on the turn's input, and both verdicts
\* were safe
C1_SinBypass ==
    \A k \in Lineas({"entrega"}) :
        \E i \in Evaluaciones("entrada"), j \in Evaluaciones("respuesta") :
            /\ i < j
            /\ llamadas[i].texto = entrada_usuario
            /\ llamadas[i].es_seguro
            /\ llamadas[j].texto = salida[k].texto
            /\ llamadas[j].es_seguro

\* a text was printed after both analyses succeeded and found it safe
C1_Testigo ==
    \E k \in Lineas({"entrega"}), j \in Evaluaciones("respuesta") :
        /\ llamadas[j].texto = salida[k].texto
        /\ llamadas[j].motivo = "seguro"
        /\ llamadas[1].motivo = "seguro"

\* C2: a text of the response whose verdict is unsafe is not printed in the
\* turn, and one generic refusal is printed for each such text, the input
\* verdict of the turn having been safe
C2_SalidaInseguraBloqueada ==
    /\ \A j \in Evaluaciones("respuesta") :
          ~llamadas[j].es_seguro =>
              /\ Entregas(llamadas[j].texto) = {}
              /\ Lineas({"rechazo_respuesta"}) # {}
              /\ "agent.response_blocked" \in atributos
              /\ llamadas[1].op = "moderar_texto" /\ llamadas[1].fase = "entrada"
              /\ llamadas[1].es_seguro
    /\ Cardinality(Lineas({"rechazo_respuesta"}))
          = Cardinality({j \in Evaluaciones("respuesta") : ~llamadas[j].es_seguro})

\* the turn ended with a refused response after an input analysed as safe
C2_Testigo ==
    /\ TurnoTerminado
    /\ \E j \in Evaluaciones("respuesta") : ~llamadas[j].es_seguro
    /\ llamadas[1].motivo = "seguro"
    /\ Lineas({"entrega"}) = {}

\* C3 as claimed: an agent-service call that raises ends the turn with a
\* failure notice and the loop goes on to read the next input
C3_ErrorServicioContinua ==
    LlamadasFallidas # {} => pc = "leer" /\ Lineas({"aviso_fallo", "traceback"}) # {}

\* C4 as claimed: a turn whose listing yields no assistant text ends with a
\* failure notice
C4_SinTextoEsFallo ==
    (/\ TurnoTerminado
     /\ llamadas # <<>>
     /\ llamadas[Len(llamadas)].op = "messages.list"
     /\ llamadas[Len(llamadas)].ok)
        => Lineas({"aviso_fallo", "traceback"}) # {}

\* C5: with a client configured, when analyze_text raises or the processing
\* of its response raises, moderar_texto returns a verdict with es_seguro true
C5_FalloAbierto ==
    (/\ pc = "retorno"
     /\ cliente_seguridad_contenido # None
     /\ BackendFalla(mod_args.backend))
        => mod_ret.es_seguro = TRUE

\* the call returned after analyze_text raised
C5_Testigo ==
    /\ pc = "retorno"
    /\ cliente_seguridad_contenido # None
    /\ mod_args.backend = ExcepcionBackend
    /\ mod_ret.es_seguro

\* C6: for a response of integer severities, es_seguro is false exactly when
\* some category has severity >= 2, that is es_seguro = (largest severity < 2)
C6_Umbral ==
    (/\ pc = "retorno"
     /\ cliente_seguridad_contenido # None
     /\ ~BackendFalla(mod_args.backend))
        => /\ (mod_ret.es_seguro = FALSE) <=>
                  (\E i \in DOMAIN mod_args.backend.categories_analysis :
                      mod_args.backend.categories_analysis[i].severity >= 2)
           /\ mod_ret.es_seguro = (SeveridadMaximaDe(mod_args.backend) < 2)

\* the call returned unsafe on a response whose largest severity is exactly 2
C6_Testigo ==
    /\ pc = "retorno"
    /\ cliente_seguridad_contenido # None
    /\ ~BackendFalla(mod_args.backend)
    /\ SeveridadMaximaDe(mod_args.backend) = 2
    /\ ~mod_ret.es_seguro

\* C7: an evaluation in which the backend failed does not stop the turn: on
\* the input the next step is the posting of the message, on the response
\* the text is printed
C7_ErrorModeracionNoBloquea ==
    \A i \in TodasEvaluaciones :
        llamadas[i].fallo_backend =>
            IF llamadas[i].fase = "entrada"
            THEN \/ i = Len(llamadas) /\ pc = "crear_mensaje"
                 \/ i < Len(llamadas) /\ llamadas[i + 1].op = "messages.create"
            ELSE Entregas(llamadas[i].texto) # {}

\* the backend failed on the input and on the response of one turn, the
\* message was posted, the run created and the text printed
C7_Testigo ==
    /\ TurnoTerminado
    /\ \E i \in Evaluaciones("entrada") : llamadas[i].fallo_backend
    /\ \E j \in Evaluaciones("respuesta") :
          llamadas[j].fallo_backend /\ Entregas(llamadas[j].texto) # {}
    /\ \E n \in DOMAIN llamadas : llamadas[n].op = "runs.create" /\ llamadas[n].ok

\* C8 as claimed: a turn that ended and was not empty printed exactly one
\* message to the user
C8_UnMensajePorTurno ==
    (\/ TurnoTerminado /\ entrada_usuario # <<>>
     \/ pc = "abortado")
        => Cardinality(Lineas(TiposMensaje)) = 1

C10_SoloPrimerTexto ==
    LET partes == PartesTexto(UltimoAsistente)
        primera == CHOOSE a \in partes : \A b \in partes : a <= b
    IN  /\ Cardinality(Evaluaciones("respuesta")) <= 1
        /\ \A i \in Evaluaciones("respuesta") :
              partes # {} /\ llamadas[i].texto = UltimoAsistente.content[primera].value
        /\ \A k \in Lineas({"entrega"}) :
              partes # {} /\ salida[k].texto = UltimoAsistente.content[primera].value

\* C11: a turn whose input verdict is unsafe ends there: the refusal is
\* printed, and no message is posted, no run created, nothing listed and no
\* response moderated in that turn
C11_EntradaInseguraSinLlamadas ==
    \A i \in Evaluaciones("entrada") :
        ~llamadas[i].es_seguro =>
            /\ Len(llamadas) = 1
            /\ pc = "leer"
            /\ Lineas({"rechazo_entrada"}) # {}
            /\ Lineas({"entrega", "rechazo_respuesta"}) = {}
            /\ "user.input_blocked" \in atributos
            /\ \A n \in DOMAIN hilo : hilo[n].id # contador_conversacion
            /\ ejecucion = None \/ ejecucion.id # contador_conversacion

\* the second turn was refused at the input after a first turn that ran the agent
C11_Testigo ==
    /\ TurnoTerminado
    /\ contador_conversacion = 2
    /\ hilo # <<>>
    /\ ejecucion # None
    /\ \E i \in Evaluaciones("entrada") : ~llamadas[i].es_seguro

\* C12: an iteration that reads a blank line adds one to the counter, makes
\* no call, leaves the thread and the run alone, and goes back to the read
C12_TurnoVacio ==
    [][(pc = "leer" /\ entrada_usuario' = <<>>) =>
          /\ contador_conversacion' = contador_conversacion + 1
          /\ llamadas' = <<>>
          /\ hilo' = hilo
          /\ ejecucion' = ejecucion
          /\ atributos' = {"user.input_empty"}
          /\ \A k \in DOMAIN salida' : salida'[k].tipo \notin TiposMensaje
          /\ pc' = "leer"]_vars

\* the second iteration read a blank line after a first turn that ran the agent
C12_Testigo ==
    /\ TurnoTerminado
    /\ contador_conversacion = 2
    /\ entrada_usuario = <<>>
    /\ "user.input_empty" \in atributos
    /\ hilo # <<>>

\* two characters equal up to case
IgualSinCaja(a, b) ==
    a = b \/ <<a, b>> \in {<<"B", "b">>, <<"Y", "y">>, <<"E", "e">>}

\* the values that are one of quit, exit, bye, salir, adiós up to case
CoincideConSalida(valor) ==
    \E w \in { <<"q","u","i","t">>, <<"e","x","i","t">>, <<"b","y","e">>,
                <<"s","a","l","i","r">>, <<"a","d","i","ó","s">> } :
        /\ Len(w) = Len(valor)
        /\ \A i \in DOMAIN w : IgualSinCaja(valor[i], w[i])

\* C13: a read ends the loop exactly when the trimmed line is an exit word up
\* to case, which is also what end-of-input and an interrupt yield; that
\* iteration makes no call, and nothing runs after the loop has ended
C13_SalidaDelBucle ==
    [][/\ pc = "leer" =>
            /\ (pc' = "terminado") <=> CoincideConSalida(entrada_usuario')
            /\ (\E k \in DOMAIN salida' :
                    salida'[k].tipo \in {"sesion_terminada", "sesion_interrumpida"})
                  => pc' = "terminado"
            /\ pc' = "terminado" =>
                  /\ llamadas' = <<>>
                  /\ hilo' = hilo
                  /\ ejecucion' = ejecucion
       /\ pc' = "terminado" => pc = "leer"
       /\ pc # "terminado"]_vars

\* the loop ended on BYE typed in capitals with a trailing blank, in the
\* second iteration
C13_Testigo ==
    /\ pc = "terminado"
    /\ entrada_usuario = <<"B", "Y", "E">>
    /\ contador_conversacion = 2
    /\ llamadas = <<>>

\* positions in llamadas of the runs.create and runs.get that returned a run
Observaciones ==
    {i \in DOMAIN llamadas : llamadas[i].op \in {"runs.create", "runs.get"} /\ llamadas[i].ok}

\* positions in llamadas of the runs.get issued
SondeosEmitidos == {i \in DOMAIN llamadas : llamadas[i].op = "runs.get"}

\* C14: the runs.get issued in a turn are as many as the non-terminal
\* statuses observed, one less while the script is about to issue the next;
\* the first terminal status is the last observation, and after it the next
\* step is the listing
C14_SondeosPorEstado ==
    /\ Cardinality(SondeosEmitidos)
          = Cardinality({i \in Observaciones : ~llamadas[i].terminal})
              - (IF pc = "sondear" THEN 1 ELSE 0)
    /\ \A i \in Observaciones :
          llamadas[i].terminal =>
              /\ \A j \in DOMAIN llamadas : j > i => llamadas[j].op \notin {"runs.create", "runs.get"}
              /\ \/ i = Len(llamadas) /\ pc = "listar"
                 \/ i < Len(llamadas) /\ llamadas[i + 1].op = "messages.list"
    /\ (pc = "sondear") <=>
          (Observaciones # {} /\ llamadas[Len(llamadas)].op \in {"runs.create", "runs.get"}
             /\ llamadas[Len(llamadas)].ok /\ ~llamadas[Len(llamadas)].terminal)

\* two non-terminal statuses, then completed: two runs.get, then the listing
C14_Testigo ==
    /\ pc = "listar"
    /\ ejecucion.status = "completed"
    /\ Cardinality(SondeosEmitidos) = 2
    /\ Cardinality({i \in Observaciones : ~llamadas[i].terminal}) = 2

\* C15: a runs.get that returns queued, in_progress or requires_action leaves
\* the script in the polling loop having done nothing but that call, whatever
\* the number of polls made; and, every call returning, a turn that has read
\* a non-empty line comes to its end or to the failure of a call
C15_SondeoYTerminacion ==
    /\ [][(/\ pc = "sondear"
             /\ pc' # "abortado"
             /\ ejecucion'.status \in {"queued", "in_progress", "requires_action"})
            => /\ pc' = "sondear"
               /\ Len(llamadas') = Len(llamadas) + 1
               /\ llamadas'[Len(llamadas')].op = "runs.get"
               /\ SubSeq(llamadas', 1, Len(llamadas)) = llamadas
               /\ UNCHANGED <<hilo, salida, atributos, contador_conversacion, entrada_usuario,
                              por_moderar>>]_vars
    /\ (pc \in {"moderar_entrada", "crear_mensaje", "crear_ejecucion", "sondear", "listar",
                 "moderar_respuesta"})
          ~> (pc = "leer" \/ pc = "abortado")

\* the script is in the polling loop after a poll that returned a
\* non-terminal status
C15_Testigo ==
    /\ pc = "sondear"
    /\ Cardinality(SondeosEmitidos) = 1
    /\ ejecucion.status = "requires_action"

\* the place of a call in the sequence of a turn
Etapa(e) ==
    CASE e.op = "moderar_texto" /\ e.fase = "entrada" -> 1
      [] e.op = "messages.create" -> 2
      [] e.op = "runs.create" -> 3
      [] e.op = "runs.get" -> 4
      [] e.op = "messages.list" -> 5
      [] e.op = "moderar_texto" /\ e.fase = "respuesta" -> 6

\* the call returned, and with the result that lets the turn go on
Completada(e) ==
    IF e.op = "moderar_texto" THEN e.fase = "respuesta" \/ e.es_seguro ELSE e.ok

\* the lines of salida that show one text of the response or its refusal,
\* in the order printed
LineasRespuesta ==
    LET F[k \in 0..Len(salida)] ==
            IF k = 0 THEN <<>>
            ELSE IF salida[k].tipo \in {"entrega", "rechazo_respuesta"}
                 THEN Append(F[k - 1], salida[k]) ELSE F[k - 1]
    IN  F[Len(salida)]

\* the evaluations of the response, in the order made
EvaluacionesRespuesta ==
    LET F[i \in 0..Len(llamadas)] ==
            IF i = 0 THEN <<>>
            ELSE IF llamadas[i].op = "moderar_texto" /\ llamadas[i].fase = "respuesta"
                 THEN Append(F[i - 1], llamadas[i]) ELSE F[i - 1]
    IN  F[Len(llamadas)]

\* C16: the calls of a turn are made in the order input moderation,
\* messages.create, runs.create, the runs.get, messages.list, the moderation
\* of the response; each starts only after the one before it has returned, none
\* is skipped other than the polls of a run created terminal, and every line
\* showing a text of the response or its refusal follows the evaluation of
\* that text and carries its verdict
C16_OrdenDelTurno ==
    /\ llamadas # <<>> => Etapa(llamadas[1]) = 1
    /\ \A i \in DOMAIN llamadas : i > 1 =>
          /\ Completada(llamadas[i - 1])
          /\ \/ Etapa(llamadas[i]) = Etapa(llamadas[i - 1]) + 1
             \/ Etapa(llamadas[i]) = Etapa(llamadas[i - 1]) /\ Etapa(llamadas[i]) \in {4, 6}
             \/ Etapa(llamadas[i - 1]) = 3 /\ Etapa(llamadas[i]) = 5
          /\ Etapa(llamadas[i]) = 5 => llamadas[i - 1].terminal
          /\ Etapa(llamadas[i]) = 4 => ~llamadas[i - 1].terminal
    /\ LET lineas == LineasRespuesta
           evaluaciones == EvaluacionesRespuesta
       IN  /\ Len(lineas) = Len(evaluaciones)
           /\ \A k \in DOMAIN lineas :
                 IF evaluaciones[k].es_seguro
                 THEN /\ lineas[k].tipo = "entrega"
                      /\ lineas[k].texto = evaluaciones[k].texto
                 ELSE lineas[k].tipo = "rechazo_respuesta"
    /\ pc = "moderar_entrada" => llamadas = <<>>
    /\ pc = "crear_mensaje" => llamadas # <<>> /\ Etapa(llamadas[Len(llamadas)]) = 1
    /\ pc = "crear_ejecucion" => llamadas # <<>> /\ Etapa(llamadas[Len(llamadas)]) = 2
    /\ pc \in {"sondear", "listar"} => llamadas # <<>> /\ Etapa(llamadas[Len(llamadas)]) \in {3, 4}
    /\ pc = "moderar_respuesta" => llamadas # <<>> /\ Etapa(llamadas[Len(llamadas)]) \in {5, 6}

\* a finished turn that went through every stage, polls included, and showed
\* a text
C16_Testigo ==
    /\ TurnoTerminado
    /\ {Etapa(llamadas[i]) : i \in DOMAIN llamadas} = 1..6
    /\ Lineas({"entrega"}) # {}

\* the iteration that ran last is over: nothing has run yet, or the line was
\* blank, or the input was refused, or the listing returned and every text
\* it gave has been shown or refused, or a call raised
IteracionAcabada ==
    \/ contador_conversacion = 0
    \/ "user.input_empty" \in atributos
    \/ "user.input_blocked" \in atributos
    \/ /\ \E i \in DOMAIN llamadas : llamadas[i].op = "messages.list" /\ llamadas[i].ok
       /\ por_moderar = <<>>
       /\ Len(LineasRespuesta) = Len(EvaluacionesRespuesta)
    \/ LlamadasFallidas # {}

\* C17: a line is read, and the counter moves on, only when the iteration
\* before it is over; and while an iteration is not over no step is a read
C17_TurnosSecuenciales ==
    [][/\ (contador_conversacion' # contador_conversacion \/ pc = "leer") => IteracionAcabada
       /\ ~IteracionAcabada =>
             /\ contador_conversacion' = contador_conversacion
             /\ entrada_usuario' = entrada_usuario]_vars

\* the second iteration is under way after a first one that went through the
\* agent
C17_Testigo ==
    /\ contador_conversacion = 2
    /\ pc = "crear_ejecucion"
    /\ \E i \in DOMAIN hilo : hilo[i].role = "assistant"

\* C18: the counter starts at 0; every iteration adds exactly one to it at
\* its top, whether the line then read is an exit word, blank, or goes on to
\* the gate; nothing else changes it
C18_ContadorPorIteracion ==
    /\ contador_conversacion = 0
    /\ [][/\ contador_conversacion' \in {contador_conversacion, contador_conversacion + 1}
          /\ (pc = "leer" /\ pc' \in {"leer", "moderar_entrada", "terminado"})
                => contador_conversacion' = contador_conversacion + 1
          /\ pc # "leer" => contador_conversacion' = contador_conversacion]_vars

\* the second iteration read a blank line and was counted
C18_Testigo ==
    /\ contador_conversacion = 2
    /\ pc = "leer"
    /\ "user.input_empty" \in atributos

\* C19 as stated: a refusal of the response is never followed by the
\* per-category breakdown of that response
C19_SoloRechazo ==
    \A k \in Lineas({"rechazo_respuesta"}) :
        k = Len(salida) \/ salida[k + 1].tipo # "analisis_categorias"

\* C19: for a text of the response that is refused, the user is shown the
\* generic refusal followed at once by the per-category breakdown of that
\* text; the text itself is not shown, and the block is recorded in the
\* span's attributes
C19_RechazoConDesglose ==
    /\ \A k \in Lineas({"rechazo_respuesta"}) :
          k < Len(salida) /\ salida[k + 1].tipo = "analisis_categorias"
    /\ \A i \in Evaluaciones("respuesta") :
          ~llamadas[i].es_seguro =>
              /\ Entregas(llamadas[i].texto) = {}
              /\ llamadas[i].con_categorias
              /\ {"agent.response_blocked", "agent.block_reason"} \subseteq atributos
    /\ Cardinality(Lineas({"rechazo_respuesta"}))
          = Cardinality({i \in Evaluaciones("respuesta") : ~llamadas[i].es_seguro})

\* a finished turn whose response was refused
C19_Testigo ==
    /\ TurnoTerminado
    /\ Lineas({"rechazo_respuesta"}) # {}
    /\ Lineas({"entrega"}) = {}

\* C20: in a session without a moderation client every evaluation of the
\* gate returns es_seguro true with the reason "disabled" and no analysis,
\* and asks no backend; so no input and no response is refused, and a turn
\* that ends with every agent call having returned shows every text of the
\* newest assistant message
C20_ModeracionDeshabilitada ==
    cliente_seguridad_contenido = None =>
        /\ \A i \in TodasEvaluaciones :
              /\ llamadas[i].es_seguro
              /\ llamadas[i].motivo = "deshabilitada"
              /\ ~llamadas[i].llamo_backend
              /\ ~llamadas[i].con_categorias
        /\ Lineas({"rechazo_entrada", "rechazo_respuesta", "advertencia_moderacion",
                   "analisis_categorias"}) = {}
        /\ (TurnoTerminado /\ entrada_usuario # <<>> /\ LlamadasFallidas = {}) =>
              /\ \E i \in DOMAIN llamadas : llamadas[i].op = "messages.list" /\ llamadas[i].ok
              /\ \A i \in PartesTexto(UltimoAsistente) :
                    Entregas(UltimoAsistente.content[i].value) # {}

\* without a client, a turn on a non-empty line ended with the agent's text
\* shown
C20_Testigo ==
    /\ cliente_seguridad_contenido = None
    /\ TurnoTerminado
    /\ entrada_usuario # <<>>
    /\ PartesTexto(UltimoAsistente) # {}
    /\ \A i \in PartesTexto(UltimoAsistente) : Entregas(UltimoAsistente.content[i].value) # {}
    /\ Evaluaciones("entrada") # {}
    /\ Evaluaciones("respuesta") # {}

\* C21: the verdict of moderar_texto carries the reason "unavailable" exactly
\* when a client is configured and analyze_text, or the reading of its
\* response, raised; the reason "disabled" exactly when there is no client;
\* and a verdict that carries an analysis has neither reason
C21_ModoDegradadoDetectable ==
    pc = "retorno" =>
        /\ (mod_ret.motivo.tipo = "no_disponible")
              <=> (cliente_seguridad_contenido # None /\ BackendFalla(mod_args.backend))
        /\ (mod_ret.motivo.tipo = "deshabilitada") <=> (cliente_seguridad_contenido = None)
        /\ (cliente_seguridad_contenido # None /\ ~BackendFalla(mod_args.backend))
              => /\ mod_ret.motivo.tipo \in {"seguro", "marcado"}
                 /\ mod_ret.respuesta = mod_args.backend
        /\ mod_ret.respuesta # None => mod_ret.motivo.tipo \in {"seguro", "marcado"}

\* the call returned "unavailable" on a response whose reading raised
C21_Testigo ==
    /\ pc = "retorno"
    /\ cliente_seguridad_contenido # None
    /\ mod_args.backend # ExcepcionBackend
    /\ BackendFalla(mod_args.backend)
    /\ mod_ret.motivo.tipo = "no_disponible"

\* positions in llamadas of the agent-service calls
LlamadasAgente == {i \in DOMAIN llamadas : llamadas[i].op # "moderar_texto"}

\* C22: every messages.create, runs.create, runs.get and messages.list of
\* every turn is made on the thread created before the loop, every runs.create
\* with the agent fetched before the loop, and no turn creates a thread
C22_IdentificadoresDeSesion ==
    \A i \in LlamadasAgente :
        /\ llamadas[i].op \in {"messages.create", "runs.create", "runs.get", "messages.list"}
        /\ llamadas[i].thread_id = IdHilo
        /\ llamadas[i].op = "runs.create" => llamadas[i].agent_id = IdAgente

\* the second turn has made all four kinds of call
C22_Testigo ==
    /\ contador_conversacion = 2
    /\ {llamadas[i].op : i \in LlamadasAgente}
          = {"messages.create", "runs.create", "runs.get", "messages.list"}

\* the turn whose run wrote the message a text comes from
TurnoDeTexto(t) == t[2]

\* C23 as claimed: every text of a response that a turn evaluates, and every
\* text it shows, comes from the message written by the run of that turn
C23_RespuestaDelTurno ==
    /\ \A i \in Evaluaciones("respuesta") :
          TurnoDeTexto(llamadas[i].texto) = ToString(contador_conversacion)
    /\ \A k \in Lineas({"entrega"}) :
          TurnoDeTexto(salida[k].texto) = ToString(contador_conversacion)

\* C24 as claimed: the iteration that reads an exit word is not counted, so
\* that conversation.total_turns, which line 385 sets to the counter as the
\* loop left it, is the number of iterations that came before the exiting one
C24_SalidaNoCuenta ==
    [][pc' = "terminado" => contador_conversacion' = contador_conversacion]_vars

\* the read of the step raised a decoding error or an exception other than
\* end of input and interrupt: the function has printed its notice
ErrorDeLectura(impreso) ==
    \E k \in DOMAIN impreso : impreso[k].tipo \in {"error_codificacion", "error_lectura"}

\* C25: an iteration whose read raised a decoding error or another exception
\* goes as one that read a blank line: it is counted, makes no moderation and
\* no agent call, leaves thread and run alone and returns to the read; it
\* never ends the loop, and an end of input or an interrupt read afterwards
\* ends it as an exit word does
C25_ErrorDeLecturaEsVacio ==
    [][pc = "leer" =>
          /\ ErrorDeLectura(salida') =>
                /\ entrada_usuario' = <<>>
                /\ pc' = "leer"
                /\ contador_conversacion' = contador_conversacion + 1
                /\ llamadas' = <<>>
                /\ atributos' = {"user.input_empty"}
                /\ Len(salida') = 1
                /\ UNCHANGED <<hilo, ejecucion>>
          /\ (\E k \in DOMAIN salida' :
                 salida'[k].tipo \in {"sesion_terminada", "sesion_interrumpida"})
                => pc' = "terminado"
          /\ pc' = "terminado" => ~ErrorDeLectura(salida')]_vars

\* the second read raised and the loop is back at the read
C25_Testigo ==
    /\ pc = "leer"
    /\ contador_conversacion = 2
    /\ ErrorDeLectura(salida)
    /\ entrada_usuario = <<>>

\* C26 as claimed: while mcp_activo is true the child whose handle the
\* supervisor holds is running
C26_ActivoImplicaCorriendo ==
    mcp_activo => (mcp_proceso # None /\ procesos[mcp_proceso.pid] = "running")

\* C27: whatever the calls of iniciar_mcp, detener_mcp, _detener_mcp and
\* gestionar_mcp made one after the other, at most one child is running; a
\* child is spawned only while mcp_activo is false, a call of iniciar_mcp
\* with mcp_activo true returns True having spawned nothing, and a start
\* whose child has exited by the check returns False with mcp_activo false
C27_UnSoloProceso ==
    /\ [](Cardinality(Corriendo) <= 1)
    /\ [][/\ Len(procesos') > Len(procesos) =>
               (~mcp_activo /\ Len(procesos') = Len(procesos) + 1 /\ Corriendo = {})
          /\ (pc = "reposo" /\ mcp_activo /\ devuelto' # devuelto
                 /\ devuelto'.op = "iniciar_mcp")
               => (devuelto'.ret /\ UNCHANGED <<procesos, operaciones, mcp_activo>>)
          /\ (pc = "verificar" /\ procesos[mcp_proceso.pid] = "exited")
               => (pc' = "reposo" /\ ~mcp_activo' /\ devuelto' = [op |-> "iniciar_mcp", ret |-> FALSE])]_vars

\* a second child runs after the first one was stopped
C27_Testigo ==
    /\ pc = "reposo"
    /\ Len(procesos) = 2
    /\ procesos[1] = "exited"
    /\ procesos[2] = "running"
    /\ mcp_activo
    /\ devuelto = [op |-> "iniciar_mcp", ret |-> TRUE]

\* C28 as claimed: when ejecutar has ended, _detener_mcp was called on the
\* way out, and if its last call returned True no child is running and
\* mcp_activo is false
C28_LimpiezaAlSalir ==
    pc = "fin" =>
        /\ devuelto # None
        /\ devuelto.op = "_detener_mcp"
        /\ devuelto.ret => (Corriendo = {} /\ ~mcp_activo)

\* the operation a step adds to operaciones, None when it adds none
OperacionDelPaso ==
    IF Len(operaciones') > Len(operaciones) THEN operaciones'[Len(operaciones')] ELSE None

ListaDeStr(x) == x.t = "list" /\ \A i \in DOMAIN x.v : x.v[i].t = "str"

\* the value is a list of dicts that all have the key
ListaDeDictCon(x, clave) ==
    /\ x.t = "list"
    /\ \A i \in DOMAIN x.v :
          x.v[i].t = "dict" /\ \E it \in x.v[i].items : it[1] = clave

\* C30 as claimed: whatever the outcome of the request, get_random_joke and
\* get_joke_by_category return a string, get_joke_categories a list of
\* strings, search_jokes a list of at most 5 dicts that all have the key
\* "joke" or that is one error entry
C30_ValoresDeclarados ==
    pc = "tool_retorno" =>
        CASE tool_args.tool \in {"get_random_joke", "get_joke_by_category"} ->
                tool_ret.t = "str"
          [] tool_args.tool = "get_joke_categories" -> ListaDeStr(tool_ret)
          [] OTHER ->
                /\ tool_ret.t = "list"
                /\ Len(tool_ret.v) <= 5
                /\ \/ ListaDeDictCon(tool_ret, "joke")
                   \/ Len(tool_ret.v) = 1 /\ ListaDeDictCon(tool_ret, "error")

====
